---- MODULE Spec2Model ----
(***************************************************************************)
(* Printer Service Logger (src/app.py): the SQLite store with its two      *)
(* tables, printers and service_logs, and the persistence operations of    *)
(* PrinterServiceApp that read and write it.                               *)
(*                                                                         *)
(* Text is a sequence of one-character strings, so that str.strip(), int() *)
(* and the f-string formatting of the code are computed, not assumed.      *)
(***************************************************************************)
EXTENDS Integers, Sequences, FiniteSets, TLC

\* ------------------------------------------------------------------ bounds
\* Highest surrogate id the printers table hands out in a run.
MaxPrinters == 3
\* Highest surrogate id the service_logs table hands out in a run.
MaxLogs == 2

\* ------------------------------------------------------------ Python text
Digit == <<"0", "1", "2", "3", "4", "5", "6", "7", "8", "9">>

IsDigit(c) == \E i \in 1..10 : Digit[i] = c

DigitVal(c) == (CHOOSE i \in 1..10 : Digit[i] = c) - 1

\* str.strip() removes leading and trailing whitespace.
IsSpace(c) == c \in {" ", "\t", "\n"}

RECURSIVE lstrip(_)
lstrip(s) == IF s # <<>> /\ IsSpace(Head(s)) THEN lstrip(Tail(s)) ELSE s

RECURSIVE rstrip(_)
rstrip(s) ==
    IF s # <<>> /\ IsSpace(s[Len(s)]) THEN rstrip(SubSeq(s, 1, Len(s) - 1)) ELSE s

strip(s) == rstrip(lstrip(s))

\* str(n) of an integer, as f"{idx}" and str(hours) format it.
RECURSIVE FormatNat(_)
FormatNat(n) ==
    IF n < 10 THEN <<Digit[n + 1]>> ELSE FormatNat(n \div 10) \o <<Digit[(n % 10) + 1]>>

FormatInt(n) == IF n < 0 THEN <<"-">> \o FormatNat(0 - n) ELSE FormatNat(n)

\* The hours argument is form text (a str) or, from duplicate, the stored int.
StrArg(s) == [str |-> s]

IntArg(n) == [int |-> n]

IsIntArg(x) == "int" \in DOMAIN x

str(x) == IF IsIntArg(x) THEN FormatInt(x.int) ELSE x.str

\* The digits of an int() literal: digits, single underscores between them.
RECURSIVE DigitsOk(_, _)
DigitsOk(s, prevDigit) ==
    IF s = <<>> THEN prevDigit
    ELSE IF IsDigit(Head(s)) THEN DigitsOk(Tail(s), TRUE)
    ELSE Head(s) = "_" /\ prevDigit /\ DigitsOk(Tail(s), FALSE)

RECURSIVE DigitsValue(_, _)
DigitsValue(s, acc) ==
    IF s = <<>> THEN acc
    ELSE IF Head(s) = "_" THEN DigitsValue(Tail(s), acc)
    ELSE DigitsValue(Tail(s), 10 * acc + DigitVal(Head(s)))

\* int(x): [err |-> TRUE] stands for ValueError.
int(x) ==
    IF IsIntArg(x) THEN [err |-> FALSE, val |-> x.int]
    ELSE LET t == strip(x.str)
             neg == t # <<>> /\ Head(t) = "-"
             signed == t # <<>> /\ Head(t) \in {"-", "+"}
             body == IF signed THEN Tail(t) ELSE t
         IN  IF body # <<>> /\ DigitsOk(body, FALSE)
             THEN [err |-> FALSE,
                   val |-> IF neg THEN 0 - DigitsValue(body, 0) ELSE DigitsValue(body, 0)]
             ELSE [err |-> TRUE, val |-> 0]

\* hours_val with no case for blank text: int(hours) always.
hours_val_always_int(hours) == int(hours)

\* hours_val = int(hours) if str(hours).strip() != "" else 0
hours_val(hours) ==
    IF strip(str(hours)) # <<>> THEN int(hours) ELSE [err |-> FALSE, val |-> 0]

\* ------------------------------------------------------------------ state
VARIABLES
    printers,             \* rows of table printers
    service_logs,         \* rows of table service_logs
    seq_printers,         \* sqlite_sequence of printers (AUTOINCREMENT)
    seq_logs,             \* sqlite_sequence of service_logs (AUTOINCREMENT)
    clock,                \* the store's datetime('now'), in seconds
    sort_hours,           \* PrinterServiceApp.sort_hours: "None", "asc", "desc"
    last                  \* the last operation called: its arguments and outcome

vars == <<printers, service_logs, seq_printers, seq_logs, clock, sort_hours, last>>

store == <<printers, service_logs, seq_printers, seq_logs>>

\* sqlite3.connect(DB_FILE): a new connection. SQLite enforces foreign keys on
\* a connection only after PRAGMA foreign_keys = ON has run on it; a new
\* connection has the setting off. Of the operations, only fetch_printers
\* and fetch_logs_for run the PRAGMA, and they only read.
get_connection == [foreign_keys |-> FALSE]

\* ----------------------------------------------------------- printers table
\* The row the INSERT and the UPDATE write: every text stripped, ams as 0/1.
PrinterRow(id, form, hours) ==
    [id |-> id,
     printer_id |-> strip(form.printer_id),
     name |-> strip(form.name),
     manufacturer |-> strip(form.manufacturer),
     model |-> strip(form.model),
     hours |-> hours,
     nozzle_type |-> strip(form.nozzle_type),
     ams |-> IF form.ams THEN 1 ELSE 0]

\* insert_printer on a table whose printer_id column is not UNIQUE.
insert_printer_not_unique(P, seq, form) ==
    LET hv == hours_val(form.hours)
    IN  IF hv.err
        THEN [outcome |-> "ValueError", printers |-> P, seq |-> seq]
        ELSE [outcome |-> "ok",
              printers |-> P \cup {PrinterRow(seq + 1, form, hv.val)},
              seq |-> seq + 1]

\* insert_printer: the new table and sequence, or the exception raised. A
\* failed statement is rolled back by the connection's context manager.
insert_printer(P, seq, form) ==
    LET hv == hours_val(form.hours)
        row == PrinterRow(seq + 1, form, hv.val)
    IN  IF hv.err
        THEN [outcome |-> "ValueError", printers |-> P, seq |-> seq]
        ELSE IF \E r \in P : r.printer_id = row.printer_id
        THEN [outcome |-> "IntegrityError", printers |-> P, seq |-> seq]
        ELSE [outcome |-> "ok", printers |-> P \cup {row}, seq |-> seq + 1]

\* update_printer: UPDATE ... WHERE id = ? changes the rows that match, which
\* may be none; the number of rows changed is not looked at.
update_printer(P, db_id, form) ==
    LET hv == hours_val(form.hours)
        row == PrinterRow(db_id, form, hv.val)
        hit == {r \in P : r.id = db_id}
    IN  IF hv.err
        THEN [outcome |-> "ValueError", printers |-> P]
        ELSE IF hit = {}
        THEN [outcome |-> "ok", printers |-> P]
        ELSE IF \E r \in P \ hit : r.printer_id = row.printer_id
        THEN [outcome |-> "IntegrityError", printers |-> P]
        ELSE [outcome |-> "ok", printers |-> (P \ hit) \cup {row}]

\* delete_printer: DELETE FROM printers WHERE id = ? on a fresh connection;
\* ON DELETE CASCADE acts only when the connection has foreign_keys on.
delete_printer(P, L, db_id) ==
    LET conn == get_connection
    IN  [printers |-> {r \in P : r.id # db_id},
         logs |-> IF conn.foreign_keys
                  THEN {l \in L : l.printer_id_fk # db_id}
                  ELSE L]

\* get_printer_by_db_id: the row with that id, if any (fetchone).
get_printer_by_db_id(P, db_id) == {r \in P : r.id = db_id}

\* ensure_unique_printer_id: the while loop, from candidate and idx.
RECURSIVE probe_printer_id(_, _, _, _)
probe_printer_id(P, base, candidate, idx) ==
    IF ~ \E r \in P : r.printer_id = candidate
    THEN candidate
    ELSE probe_printer_id(P, base, base \o <<"-">> \o FormatInt(idx + 1), idx + 1)

DefaultPrinterId == <<"p", "r", "i", "n", "t", "e", "r">>

\* ensure_unique_printer_id with idx starting at 0: base, base-1, base-2, ...
ensure_unique_printer_id_from_zero(P, base_printer_id) ==
    LET base == IF strip(base_printer_id) # <<>>
                THEN strip(base_printer_id)
                ELSE DefaultPrinterId
    IN  probe_printer_id(P, base, base, 0)

ensure_unique_printer_id(P, base_printer_id) ==
    LET base == IF strip(base_printer_id) # <<>>
                THEN strip(base_printer_id)
                ELSE DefaultPrinterId
    IN  probe_printer_id(P, base, base, 1)

\* ------------------------------------------------------- service_logs table
\* insert_log: INSERT on a fresh connection; the FOREIGN KEY clause rejects an
\* unknown printer_id_fk only when the connection has foreign_keys on.
\* created_at takes its DEFAULT, datetime('now').
insert_log(P, L, seq, db_id, note, now) ==
    LET conn == get_connection
        row == [id |-> seq + 1, printer_id_fk |-> db_id,
                note |-> strip(note), created_at |-> now]
    IN  IF conn.foreign_keys /\ ~ \E r \in P : r.id = db_id
        THEN [outcome |-> "IntegrityError", logs |-> L, seq |-> seq]
        ELSE [outcome |-> "ok", logs |-> L \cup {row}, seq |-> seq + 1]

\* update_log with no WHERE clause: every row takes the note.
update_log_every_row(L, log_id, note) == {[l EXCEPT !.note = strip(note)] : l \in L}

\* update_log: UPDATE service_logs SET note = ? WHERE id = ?
update_log(L, log_id, note) ==
    {IF l.id = log_id THEN [l EXCEPT !.note = strip(note)] ELSE l : l \in L}

\* delete_log: DELETE FROM service_logs WHERE id = ?
delete_log(L, log_id) == {l \in L : l.id # log_id}

\* ------------------------------------------------------------------ queries
\* SQLite compares TEXT with the BINARY collation: byte by byte.
Ord(c) ==
    CASE c = "\t" -> 9 [] c = "\n" -> 10 [] c = " " -> 32
      [] c = "(" -> 40 [] c = ")" -> 41 [] c = "+" -> 43 [] c = "-" -> 45
      [] IsDigit(c) -> 48 + DigitVal(c)
      [] c = "A" -> 65 [] c = "B" -> 66 [] c = "C" -> 67 [] c = "K" -> 75
      [] c = "X" -> 88 [] c = "_" -> 95 [] c = "a" -> 97 [] c = "c" -> 99
      [] c = "e" -> 101 [] c = "i" -> 105 [] c = "m" -> 109 [] c = "n" -> 110
      [] c = "o" -> 111 [] c = "p" -> 112 [] c = "r" -> 114 [] c = "t" -> 116
      [] c = "x" -> 120 [] c = "y" -> 121

RECURSIVE TextCompare(_, _)
TextCompare(a, b) ==
    IF a = <<>> THEN (IF b = <<>> THEN 0 ELSE 0 - 1)
    ELSE IF b = <<>> THEN 1
    ELSE IF Ord(Head(a)) < Ord(Head(b)) THEN 0 - 1
    ELSE IF Ord(Head(a)) > Ord(Head(b)) THEN 1
    ELSE TextCompare(Tail(a), Tail(b))

\* order_clause with the 'desc' branch ordering as 'asc' does.
order_clause_desc_as_asc(sort, a, b) ==
    IF sort \in {"asc", "desc"}
    THEN a.hours < b.hours \/ (a.hours = b.hours /\ TextCompare(a.name, b.name) <= 0)
    ELSE TextCompare(a.name, b.name) <= 0

\* The ORDER BY clause fetch_printers builds from sort_hours: may row a come
\* before row b. Rows that compare equal may come in either order.
order_clause(sort, a, b) ==
    IF sort = "asc"
    THEN a.hours < b.hours \/ (a.hours = b.hours /\ TextCompare(a.name, b.name) <= 0)
    ELSE IF sort = "desc"
    THEN a.hours > b.hours \/ (a.hours = b.hours /\ TextCompare(a.name, b.name) <= 0)
    ELSE TextCompare(a.name, b.name) <= 0

\* Every list of the rows of R, each once.
Listings(R) ==
    {s \in [1..Cardinality(R) -> R] : \A i, j \in DOMAIN s : i # j => s[i] # s[j]}

\* fetch_printers: the lists fetchall() may return.
fetch_printers(P, sort) ==
    {s \in Listings(P) : \A i, j \in DOMAIN s : i < j => order_clause(sort, s[i], s[j])}

\* fetch_logs_for: WHERE printer_id_fk = ? ORDER BY created_at DESC.
fetch_logs_for(L, db_id) ==
    {s \in Listings({l \in L : l.printer_id_fk = db_id}) :
        \A i, j \in DOMAIN s : i < j => s[i].created_at >= s[j].created_at}

\* ---------------------------------------------------------------- duplicate
CopyIdSuffix == <<"-", "c", "o", "p", "y">>

CopyNameSuffix == <<" ", "(", "C", "o", "p", "y", ")">>

\* duplicate_selected_printer that does not copy the ams flag.
duplicate_selected_printer_ams_lost(P, seq, db_id) ==
    LET found == get_printer_by_db_id(P, db_id)
        row == CHOOSE r \in found : TRUE
    IN  IF found = {}
        THEN [outcome |-> "not found", printers |-> P, seq |-> seq]
        ELSE insert_printer(P, seq,
                 [printer_id |-> ensure_unique_printer_id(P, row.printer_id \o CopyIdSuffix),
                  name |-> strip(row.name) \o CopyNameSuffix,
                  manufacturer |-> row.manufacturer,
                  model |-> row.model,
                  hours |-> IntArg(row.hours),
                  nozzle_type |-> row.nozzle_type,
                  ams |-> FALSE])

\* duplicate_selected_printer, from the row read to the insert.
duplicate_selected_printer(P, seq, db_id) ==
    LET found == get_printer_by_db_id(P, db_id)
        row == CHOOSE r \in found : TRUE
        new_printer_id == ensure_unique_printer_id(P, row.printer_id \o CopyIdSuffix)
        new_name == strip(row.name) \o CopyNameSuffix
    IN  IF found = {}
        THEN [outcome |-> "not found", printers |-> P, seq |-> seq]
        ELSE insert_printer(P, seq,
                 [printer_id |-> new_printer_id,
                  name |-> new_name,
                  manufacturer |-> row.manufacturer,
                  model |-> row.model,
                  hours |-> IntArg(row.hours),
                  nozzle_type |-> row.nozzle_type,
                  ams |-> row.ams # 0])

\* ------------------------------------------------------------------- inputs
\* What the form fields and dialogs may hold when an operation is called.
Form(p, n, h, a) ==
    [printer_id |-> p, name |-> n, manufacturer |-> <<"K", " ">>, model |-> <<>>,
     hours |-> StrArg(h), nozzle_type |-> <<" ", "n">>, ams |-> a]

PrinterIdTexts == {<<"m">>, <<" ", "m">>, <<"m", "-", "2">>, <<" ">>}

NoteTexts == {<<"x">>, <<" ", "y">>}

\* Forms for the runs about the two tables together.
Forms == {Form(<<" ", "m">>, <<"A">>, <<"5">>, FALSE)}

\* Forms for the runs about printer identifiers and copies.
IdForms ==
    {Form(<<" ", "m">>, <<"A", " ">>, <<"5">>, TRUE),
     Form(<<"m", "-", "2">>, <<"A", " ">>, <<"5">>, TRUE),
     Form(<<"m">>, <<>>, <<"a">>, FALSE),
     Form(<<"m">>, <<>>, <<>>, FALSE)}

\* Forms for the runs about hours and the order of the list.
HoursForms ==
    {Form(<<"m">>, <<"B">>, <<" ", "5">>, FALSE),
     Form(<<"m", "-", "2">>, <<"A">>, <<"1">>, FALSE),
     Form(<<" ">>, <<"A">>, <<"3">>, FALSE),
     Form(<<"m">>, <<"A">>, <<>>, FALSE),
     Form(<<"m", "-", "2">>, <<"A">>, <<" ">>, FALSE),
     Form(<<" ">>, <<"B">>, <<"a">>, FALSE),
     Form(<<"m">>, <<"A">>, <<"-", "1">>, FALSE),
     Form(<<"m", "-", "2">>, <<"B">>, <<"+", "3">>, FALSE)}

PrinterIds == 1..MaxPrinters

LogIds == 1..MaxLogs

NoArgs == <<>>

Called(op, outcome, db_id, args, result) ==
    [op |-> op, outcome |-> outcome, db_id |-> db_id, args |-> args, result |-> result]

\* ---------------------------------------------------------------- behaviour
\* initialize_database on a new file, then PrinterServiceApp.__init__.
Init ==
    /\ printers = {}
    /\ service_logs = {}
    /\ seq_printers = 0
    /\ seq_logs = 0
    /\ clock = 0
    /\ sort_hours = "None"
    /\ last = Called("initialize_database", "ok", 0, NoArgs, NoArgs)

InsertPrinter(form) ==
    LET res == insert_printer(printers, seq_printers, form)
    IN  /\ res.outcome = "ok" => seq_printers < MaxPrinters
        /\ printers' = res.printers
        /\ seq_printers' = res.seq
        /\ last' = Called("insert_printer", res.outcome, res.seq, form, NoArgs)
        /\ UNCHANGED <<service_logs, seq_logs, clock, sort_hours>>

UpdatePrinter(db_id, form) ==
    LET res == update_printer(printers, db_id, form)
    IN  /\ printers' = res.printers
        /\ last' = Called("update_printer", res.outcome, db_id, form, NoArgs)
        /\ UNCHANGED <<service_logs, seq_printers, seq_logs, clock, sort_hours>>

DeletePrinter(db_id) ==
    LET res == delete_printer(printers, service_logs, db_id)
    IN  /\ printers' = res.printers
        /\ service_logs' = res.logs
        /\ last' = Called("delete_printer", "ok", db_id, NoArgs, NoArgs)
        /\ UNCHANGED <<seq_printers, seq_logs, clock, sort_hours>>

EnsureUniquePrinterId(base) ==
    /\ last' = Called("ensure_unique_printer_id", "ok", 0, base,
                      ensure_unique_printer_id(printers, base))
    /\ UNCHANGED <<store, clock, sort_hours>>

DuplicateSelectedPrinter(db_id) ==
    LET res == duplicate_selected_printer(printers, seq_printers, db_id)
    IN  /\ res.outcome = "ok" => seq_printers < MaxPrinters
        /\ printers' = res.printers
        /\ seq_printers' = res.seq
        /\ last' = Called("duplicate_selected_printer", res.outcome, db_id, NoArgs, res.seq)
        /\ UNCHANGED <<service_logs, seq_logs, clock, sort_hours>>

FetchPrinters ==
    \E rows \in fetch_printers(printers, sort_hours) :
        /\ last' = Called("fetch_printers", "ok", 0, sort_hours, rows)
        /\ UNCHANGED <<store, clock, sort_hours>>

\* set_sort_hours: sets the selector and refreshes the list.
SetSortHours(order) ==
    \E rows \in fetch_printers(printers, order) :
        /\ sort_hours' = order
        /\ last' = Called("fetch_printers", "ok", 0, order, rows)
        /\ UNCHANGED <<store, clock>>

\* insert_log, called dt seconds after the statement before it.
InsertLog(db_id, note, dt) ==
    LET res == insert_log(printers, service_logs, seq_logs, db_id, note, clock + dt)
    IN  /\ res.outcome = "ok" => seq_logs < MaxLogs
        /\ service_logs' = res.logs
        /\ seq_logs' = res.seq
        /\ clock' = clock + dt
        /\ last' = Called("insert_log", res.outcome, db_id, note, res.seq)
        /\ UNCHANGED <<printers, seq_printers, sort_hours>>

UpdateLog(log_id, note) ==
    /\ service_logs' = update_log(service_logs, log_id, note)
    /\ last' = Called("update_log", "ok", log_id, note, NoArgs)
    /\ UNCHANGED <<printers, seq_printers, seq_logs, clock, sort_hours>>

DeleteLog(log_id) ==
    /\ service_logs' = delete_log(service_logs, log_id)
    /\ last' = Called("delete_log", "ok", log_id, NoArgs, NoArgs)
    /\ UNCHANGED <<printers, seq_printers, seq_logs, clock, sort_hours>>

FetchLogsFor(db_id) ==
    \E rows \in fetch_logs_for(service_logs, db_id) :
        /\ last' = Called("fetch_logs_for", "ok", db_id, NoArgs, rows)
        /\ UNCHANGED <<store, clock, sort_hours>>

PrinterOps(F) ==
    \/ \E form \in F : InsertPrinter(form)
    \/ \E db_id \in PrinterIds, form \in F : UpdatePrinter(db_id, form)
    \/ \E db_id \in PrinterIds : DeletePrinter(db_id)

CopyOps == \E db_id \in PrinterIds : DuplicateSelectedPrinter(db_id)

LogOps ==
    \/ \E db_id \in PrinterIds, note \in NoteTexts, dt \in 0..1 : InsertLog(db_id, note, dt)
    \/ \E log_id \in LogIds, note \in NoteTexts : UpdateLog(log_id, note)
    \/ \E log_id \in LogIds : DeleteLog(log_id)

LogListOps == \E db_id \in PrinterIds : FetchLogsFor(db_id)

ListOps ==
    \/ FetchPrinters
    \/ \E order \in {"asc", "desc"} : SetSortHours(order)

\* Every operation that writes, and the list of a printer's logs.
Next == PrinterOps(Forms) \/ CopyOps \/ LogOps \/ LogListOps

Spec == Init /\ [][Next]_vars

\* The operations on logs, with printers that come and go.
NextLogs ==
    \/ \E form \in Forms : InsertPrinter(form)
    \/ \E db_id \in PrinterIds : DeletePrinter(db_id)
    \/ LogOps

SpecLogs == Init /\ [][NextLogs]_vars

NextIds ==
    \/ PrinterOps(IdForms)
    \/ CopyOps
    \/ \E base \in PrinterIdTexts : EnsureUniquePrinterId(base)

SpecIds == Init /\ [][NextIds]_vars

NextHours ==
    \/ \E form \in HoursForms : InsertPrinter(form)
    \/ \E db_id \in PrinterIds : DeletePrinter(db_id)
    \/ ListOps

SpecHours == Init /\ [][NextHours]_vars

\* ------------------------------------------------------------------- claims
HasPrinter(P, db_id) == \E r \in P : r.id = db_id

LogsOf(L, db_id) == {l \in L : l.printer_id_fk = db_id}

\* C1: delete_printer(id) on a stored printer leaves neither the printer row
\* with that id nor any service log whose printer_id_fk is that id, and
\* leaves the logs of the other printers as they were.
C1_DeleteCascades ==
    [][(last'.op = "delete_printer" /\ HasPrinter(printers, last'.db_id)) =>
        /\ ~ HasPrinter(printers', last'.db_id)
        /\ LogsOf(service_logs', last'.db_id) = {}
        /\ service_logs' \ LogsOf(service_logs', last'.db_id)
              = service_logs \ LogsOf(service_logs, last'.db_id)]_vars

\* C2: in every reachable state, every stored service log's printer_id_fk is
\* the id of a printer that is stored (no orphan logs).
C2_NoOrphanLogs ==
    \A l \in service_logs : HasPrinter(printers, l.printer_id_fk)

\* C3: insert_log with a printer id that is the id of no stored printer fails
\* and leaves the service_logs table unchanged.
C3_InsertLogRejectsUnknownPrinter ==
    [][(last'.op = "insert_log" /\ ~ HasPrinter(printers, last'.db_id)) =>
        /\ last'.outcome \in {"IntegrityError", "NotFoundError"}
        /\ service_logs' = service_logs]_vars

\* C7: update_printer with an id that is the id of no stored printer fails
\* with NotFoundError, and changes no row.
C7_UpdateUnknownPrinterFails ==
    [][(last'.op = "update_printer" /\ ~ HasPrinter(printers, last'.db_id)) =>
        /\ last'.outcome = "NotFoundError"
        /\ printers' = printers]_vars

\* The printer_id values stored in P.
StoredPrinterIds(P) == {r.printer_id : r \in P}

\* Text that int() takes: an optional sign and then decimal digits, with
\* whitespace around it (the forms hold no underscore between digits).
IsIntegerText(t) ==
    LET u == strip(t)
        d == IF u # <<>> /\ Head(u) \in {"+", "-"} THEN Tail(u) ELSE u
    IN  d # <<>> /\ \A i \in DOMAIN d : IsDigit(d[i])

IsBlankText(t) == \A i \in DOMAIN t : IsSpace(t[i])

\* The text left when the whitespace at both ends of t is removed.
Trimmed(t) ==
    IF IsBlankText(t) THEN <<>>
    ELSE LET first == CHOOSE i \in DOMAIN t :
                          ~ IsSpace(t[i]) /\ \A j \in 1..(i - 1) : IsSpace(t[j])
             final == CHOOSE i \in DOMAIN t :
                          ~ IsSpace(t[i]) /\ \A j \in (i + 1)..Len(t) : IsSpace(t[j])
         IN  [k \in 1..(final - first + 1) |-> t[first + k - 1]]

\* C4, the invariant: no two stored printers share a printer_id.
UniquePrinterIds ==
    \A r1, r2 \in printers : r1.printer_id = r2.printer_id => r1 = r2

\* C4, the rejection: an insert_printer, or an update_printer of a stored
\* row, whose trimmed printer_id is that of another stored row fails and
\* leaves the table as it was; the failure is the store's uniqueness error
\* whenever the hours text is valid.
CollisionRejected ==
    LET call == last'
        others == IF call.op = "update_printer"
                  THEN {r \in printers : r.id # call.db_id}
                  ELSE printers
        applies == \/ call.op = "insert_printer"
                   \/ call.op = "update_printer" /\ HasPrinter(printers, call.db_id)
    IN  (applies /\ Trimmed(call.args.printer_id) \in StoredPrinterIds(others)) =>
            /\ call.outcome # "ok"
            /\ printers' = printers
            /\ (IsIntegerText(call.args.hours.str) \/ IsBlankText(call.args.hours.str))
                  => call.outcome = "IntegrityError"

\* C4: no two stored printers ever share a printer_id, and an insert_printer
\* or update_printer whose trimmed printer_id is that of another stored row
\* fails with the uniqueness error and leaves the printers table as it was.
C4_PrinterIdUnique == []UniquePrinterIds /\ [][CollisionRejected]_vars

\* C4 witness: an insert of " m" was refused while "m" is stored.
C4_Witness ==
    /\ last.op = "insert_printer"
    /\ last.outcome = "IntegrityError"
    /\ last.args.printer_id = <<" ", "m">>
    /\ <<"m">> \in StoredPrinterIds(printers)

Numeral == <<"1", "2", "3", "4", "5", "6", "7", "8", "9">>

\* The k-th candidate of the sequence b, b-2, b-3, ...
Candidate(b, k) == IF k = 1 THEN b ELSE b \o <<"-", Numeral[k]>>

\* The first candidate that is the printer_id of no row of P, for base text t.
FirstFree(P, t) ==
    LET b == IF IsBlankText(t) THEN DefaultPrinterId ELSE Trimmed(t)
        k == CHOOSE k \in 1..(Cardinality(P) + 1) :
                 /\ Candidate(b, k) \notin StoredPrinterIds(P)
                 /\ \A j \in 1..(k - 1) : Candidate(b, j) \in StoredPrinterIds(P)
    IN  Candidate(b, k)

\* C5: ensure_unique_printer_id(base) returns the first of b, b-2, b-3, ...
\* that is the printer_id of no stored printer, b being base trimmed, or
\* "printer" when that is empty; it does not modify the store.
C5_EnsureUniqueFirstFree ==
    [][last'.op = "ensure_unique_printer_id" =>
        /\ last'.result = FirstFree(printers, last'.args)
        /\ store' = store]_vars

\* C5 witness: with "m" and "m-2" stored, base " m" gave "m-3".
C5_Witness ==
    /\ last.op = "ensure_unique_printer_id"
    /\ last.args = <<" ", "m">>
    /\ last.result = <<"m", "-", "3">>
    /\ {<<"m">>, <<"m", "-", "2">>} \subseteq StoredPrinterIds(printers)

\* C6: insert_printer with empty or whitespace-only hours text stores hours
\* 0 (it raises no validation error, and the row it adds has hours 0);
\* insert_printer with hours text that is no integer fails with the
\* validation error and leaves the printers table as it was.
C6_InsertHours ==
    [][last'.op = "insert_printer" =>
        LET call == last'
            text == call.args.hours.str
        IN  /\ IsBlankText(text) =>
                /\ call.outcome # "ValueError"
                /\ call.outcome = "ok" =>
                      /\ Cardinality(printers' \ printers) = 1
                      /\ \A r \in printers' \ printers : r.hours = 0
            /\ (~ IsBlankText(text) /\ ~ IsIntegerText(text)) =>
                /\ call.outcome = "ValueError"
                /\ printers' = printers
                /\ seq_printers' = seq_printers]_vars

\* C6 witness: an insert with hours " " was stored, with hours 0.
C6_Witness ==
    /\ last.op = "insert_printer"
    /\ last.outcome = "ok"
    /\ last.args.hours.str = <<" ">>
    /\ \E r \in printers : r.id = last.db_id /\ r.hours = 0

\* C8: update_log on a stored log replaces that log's note with the trimmed
\* text and leaves its created_at, its printer_id_fk, its id and every other
\* log row unchanged.
C8_UpdateLogFrame ==
    [][(last'.op = "update_log" /\ \E l \in service_logs : l.id = last'.db_id) =>
        LET old == CHOOSE l \in service_logs : l.id = last'.db_id
            new == [id |-> old.id, printer_id_fk |-> old.printer_id_fk,
                    note |-> Trimmed(last'.args), created_at |-> old.created_at]
        IN  /\ service_logs' = (service_logs \ {old}) \cup {new}
            /\ printers' = printers]_vars

\* C8 witness: the note of one of two logs was replaced by "y", from " y".
C8_Witness ==
    /\ last.op = "update_log"
    /\ last.args = <<" ", "y">>
    /\ \E l, k \in service_logs :
          /\ l.id = last.db_id
          /\ l.note = <<"y">>
          /\ k.id # l.id
          /\ k.note = <<"x">>
          /\ l.created_at > 0

\* The row a copy of src is to be, with the given name.
CopyRow(P, seq, src, name) ==
    [id |-> seq + 1,
     printer_id |-> FirstFree(P, src.printer_id \o CopyIdSuffix),
     name |-> name,
     manufacturer |-> src.manufacturer,
     model |-> src.model,
     hours |-> src.hours,
     nozzle_type |-> src.nozzle_type,
     ams |-> src.ams]

\* Duplicating adds exactly the copy with the name named(N) of the source's
\* name N when the id is stored, and adds nothing and reports not found when
\* it is not. trimmed tells whether the name is N followed by " (Copy)" as it
\* is, or with the whitespace at its ends removed.
DuplicateAdds(trimmed) ==
    last'.op = "duplicate_selected_printer" =>
        IF HasPrinter(printers, last'.db_id)
        THEN LET src == CHOOSE r \in printers : r.id = last'.db_id
                 name == IF trimmed
                         THEN Trimmed(src.name \o CopyNameSuffix)
                         ELSE src.name \o CopyNameSuffix
                 new == CopyRow(printers, seq_printers, src, name)
             IN  /\ last'.outcome = "ok"
                 /\ printers' = printers \cup {new}
                 /\ new \notin printers
        ELSE /\ last'.outcome = "not found"
             /\ printers' = printers

\* C9 as stated: duplicating a stored printer with printer_id P and name N
\* adds exactly one row, whose printer_id is the first free of P-copy,
\* P-copy-2, ..., whose name is N followed by " (Copy)", and whose other
\* fields are the source's; duplicating an id not stored adds no row and
\* reports not found.
C9_DuplicateAsStated == [][DuplicateAdds(FALSE)]_vars

\* C9, amended: as stated, but the name of the new row is N followed by
\* " (Copy)" with the whitespace at its ends removed: "(Copy)" when N is
\* empty.
C9_Duplicate == [][DuplicateAdds(TRUE)]_vars

\* C9 witness: with "m-copy" taken, a copy of "m" was stored as "m-copy-2".
C9_Witness ==
    /\ last.op = "duplicate_selected_printer"
    /\ last.outcome = "ok"
    /\ \E src, new \in printers :
          /\ src.id = last.db_id
          /\ new.id = last.result
          /\ src.printer_id = <<"m">>
          /\ new.printer_id = <<"m", "-", "c", "o", "p", "y", "-", "2">>
          /\ new.name = src.name \o CopyNameSuffix
          /\ new.ams = 1

\* Text a is at or before text b in byte order.
NameLeq(a, b) ==
    \/ Len(a) <= Len(b) /\ \A i \in 1..Len(a) : a[i] = b[i]
    \/ \E k \in 1..Len(a) :
          /\ k <= Len(b)
          /\ \A i \in 1..(k - 1) : a[i] = b[i]
          /\ Ord(a[k]) < Ord(b[k])

\* Row a may stand before row b in a list sorted the given way.
MayPrecede(sort, a, b) ==
    CASE sort = "None" -> NameLeq(a.name, b.name)
      [] sort = "asc" -> a.hours < b.hours \/ (a.hours = b.hours /\ NameLeq(a.name, b.name))
      [] sort = "desc" -> a.hours > b.hours \/ (a.hours = b.hours /\ NameLeq(a.name, b.name))

\* C10: the list fetch_printers returns holds every stored printer exactly
\* once, by name ascending when the selector is none, by hours ascending and
\* then name when it is ascending, by hours descending and then name when it
\* is descending.
C10_ListSorted ==
    last.op = "fetch_printers" =>
        LET rows == last.result
        IN  /\ {rows[i] : i \in DOMAIN rows} = printers
            /\ Len(rows) = Cardinality(printers)
            /\ \A i, j \in DOMAIN rows : i < j => MayPrecede(last.args, rows[i], rows[j])

\* C10 witness: printers with hours 5, 1 and 3 were listed ascending, as
\* 1, 3, 5.
C10_Witness ==
    /\ last.op = "fetch_printers"
    /\ last.args = "asc"
    /\ Len(last.result) = 3
    /\ <<last.result[1].hours, last.result[2].hours, last.result[3].hours>> = <<1, 3, 5>>

\* C11: in every reachable state every stored printer's hours is an integer
\* that is not negative, whatever hours text insert_printer and
\* update_printer are given.
C11_HoursNonNegative ==
    \A r \in printers : r.hours \in Int /\ r.hours >= 0

\* C12: the list fetch_logs_for returns for the id of a stored printer holds
\* exactly the logs whose printer_id_fk is that id, each once, the one
\* inserted later (the one with the higher id) before the one inserted
\* earlier, also when their created_at are equal.
C12_LogsMostRecentFirst ==
    (last.op = "fetch_logs_for" /\ HasPrinter(printers, last.db_id)) =>
        LET rows == last.result
        IN  /\ {rows[i] : i \in DOMAIN rows} = LogsOf(service_logs, last.db_id)
            /\ Len(rows) = Cardinality(LogsOf(service_logs, last.db_id))
            /\ \A i, j \in DOMAIN rows : i < j => rows[i].id > rows[j].id

\* A step that stores a new printer: an insert_printer or a duplicate that
\* succeeded.
StoresNewPrinter ==
    /\ last'.op \in {"insert_printer", "duplicate_selected_printer"}
    /\ last'.outcome = "ok"

\* The ids of the rows a step adds to the printers table.
NewPrinterIds == {r.id : r \in printers'} \ {r.id : r \in printers}

\* C13, the ids: the sequence of the printers table never falls and bounds
\* the id of every stored row, and a step that stores a new printer gives it
\* one id, above the sequence: above every id given before, also those of
\* printers deleted since.
IdsNeverReused ==
    /\ seq_printers' >= seq_printers
    /\ \A r \in printers : r.id <= seq_printers
    /\ StoresNewPrinter =>
          /\ Cardinality(NewPrinterIds) = 1
          /\ \A id \in NewPrinterIds : id > seq_printers /\ id <= seq_printers'

\* C13, the logs: the list of logs of a printer just stored is empty.
FreshPrinterHasNoLogs ==
    StoresNewPrinter =>
        \A id \in NewPrinterIds : fetch_logs_for(service_logs', id) = {<<>>}

\* C13: printer ids are never reused: a newly inserted printer receives an id
\* above every id assigned before, so the list of its logs is empty and
\* shows no log written for a printer deleted before.
C13_FreshPrinter == [][IdsNeverReused /\ FreshPrinterHasNoLogs]_vars

====
